---- MODULE Spec2Model ----
(***************************************************************************)
(* Model of youtube_to_openwebui.py: the identifier extractor, the         *)
(* filename synthesizer, the existing-artifact detector, the run-scoped    *)
(* set of processed identifiers and the per-reference loop of main().      *)
(* Text is modelled as sequences of one-character strings.                 *)
(***************************************************************************)
EXTENDS Naturals, Sequences, FiniteSets

VARIABLES urls, skip_existing, overwrite, store, processed_ids,
          success_count, skipped_count, duplicate_count, i, pc,
          outcomes, last, seen_ids, save_called, written_ids, store0

vars == <<urls, skip_existing, overwrite, store, processed_ids,
          success_count, skipped_count, duplicate_count, i, pc,
          outcomes, last, seen_ids, save_called, written_ids, store0>>

(* ------------------------------ bounds -------------------------------- *)

MaxBatch == 2

(* --------------------------- text helpers ----------------------------- *)

Lower == {"a","b","c","d","e","f","g","h","i","j","k","l","m",
          "n","o","p","q","r","s","t","u","v","w","x","y","z"}

Upper == {"A","B","C","D","E","F","G","H","I","J","K","L","M",
          "N","O","P","Q","R","S","T","U","V","W","X","Y","Z"}

Digit == {"0","1","2","3","4","5","6","7","8","9"}

isalnum(c) == c \in Lower \cup Upper \cup Digit

Whitespace == {" ", "\t", "\n"}

Reserved == {"\\", "/", "*", "?", ":", "\"", "<", ">", "|"}

Contains(s, sub) ==
    \E k \in 0..(Len(s) - Len(sub)) : SubSeq(s, k + 1, k + Len(sub)) = sub

StartsWith(s, p) == Len(p) <= Len(s) /\ SubSeq(s, 1, Len(p)) = p

FirstIndex(s, c) ==
    IF \E k \in 1..Len(s) : s[k] = c
    THEN CHOOSE k \in 1..Len(s) : s[k] = c /\ \A m \in 1..(k - 1) : s[m] # c
    ELSE 0

LastIndex(s, c) ==
    IF \E k \in 1..Len(s) : s[k] = c
    THEN CHOOSE k \in 1..Len(s) : s[k] = c /\ \A m \in (k + 1)..Len(s) : s[m] # c
    ELSE 0

\* s.split(c)[-1]
AfterLast(s, c) == SubSeq(s, LastIndex(s, c) + 1, Len(s))

\* s.split(c)[0]
BeforeFirst(s, c) ==
    IF FirstIndex(s, c) = 0 THEN s ELSE SubSeq(s, 1, FirstIndex(s, c) - 1)

\* s.split(c, 1)[1], the empty text when c does not occur
AfterFirst(s, c) ==
    IF FirstIndex(s, c) = 0 THEN <<>> ELSE SubSeq(s, FirstIndex(s, c) + 1, Len(s))

RECURSIVE Split(_, _)
\* s.split(c) with a one-character separator
Split(s, c) ==
    IF FirstIndex(s, c) = 0 THEN <<s>>
    ELSE <<BeforeFirst(s, c)>> \o Split(AfterFirst(s, c), c)

RECURSIVE Words(_)
\* s.split(): maximal runs of non-whitespace characters
Words(s) ==
    IF s = <<>> THEN <<>>
    ELSE IF Head(s) \in Whitespace THEN Words(Tail(s))
    ELSE LET n == IF \E k \in 1..Len(s) : s[k] \in Whitespace
                  THEN (CHOOSE k \in 1..Len(s) :
                           s[k] \in Whitespace /\ \A m \in 1..(k - 1) : s[m] \notin Whitespace) - 1
                  ELSE Len(s)
         IN  <<SubSeq(s, 1, n)>> \o Words(SubSeq(s, n + 1, Len(s)))

RECURSIVE Join(_, _)
\* sep.join(ws)
Join(ws, sep) ==
    IF ws = <<>> THEN <<>>
    ELSE IF Len(ws) = 1 THEN ws[1]
    ELSE ws[1] \o sep \o Join(Tail(ws), sep)

Take(s, n) == SubSeq(s, 1, IF Len(s) < n THEN Len(s) ELSE n)

Repeat(c, n) == [k \in 1..n |-> c]

(* ------------------------ identifier extractor ------------------------ *)

S_youtu_be == <<"y","o","u","t","u",".","b","e">>

S_youtube_com_watch ==
    <<"y","o","u","t","u","b","e",".","c","o","m","/","w","a","t","c","h">>

\* urlparse(url).query: the text after the first "?" of the part before the
\* first "#"
UrlQuery(url) == AfterFirst(BeforeFirst(url, "#"), "?")

\* value.replace('+', ' ') of parse_qsl
PlusToSpace(s) == [k \in 1..Len(s) |-> IF s[k] = "+" THEN " " ELSE s[k]]

\* the %XX escapes decoded by unquote that the modelled references can hold
PercentCodes == {<<"2","F">>, <<"3","F">>, <<"2","E">>}

PercentChar(code) ==
    IF code = <<"2","F">> THEN "/" ELSE IF code = <<"3","F">> THEN "?" ELSE "."

RECURSIVE unquote(_)
unquote(s) ==
    IF s = <<>> THEN <<>>
    ELSE IF Head(s) = "%" /\ Len(s) >= 3 /\ SubSeq(s, 2, 3) \in PercentCodes
         THEN <<PercentChar(SubSeq(s, 2, 3))>> \o unquote(SubSeq(s, 4, Len(s)))
         ELSE <<Head(s)>> \o unquote(Tail(s))

RECURSIVE QsValues(_, _)
\* parse_qs(query)[key] as a sequence (empty: the key is absent).  pairs is
\* query.split('&'); a pair without "=" or with a blank value is dropped
\* (strict_parsing and keep_blank_values are off)
QsValues(pairs, key) ==
    IF pairs = <<>> THEN <<>>
    ELSE LET p     == Head(pairs)
             name  == unquote(PlusToSpace(BeforeFirst(p, "=")))
             value == unquote(PlusToSpace(AfterFirst(p, "=")))
         IN  (IF FirstIndex(p, "=") # 0 /\ AfterFirst(p, "=") # <<>> /\ name = key
              THEN <<value>> ELSE <<>>)
             \o QsValues(Tail(pairs), key)

parse_qs(query, key) == QsValues(Split(query, "&"), key)

\* extract_video_id(url): [ok |-> FALSE] stands for the raised exception
\* (ValueError, or the KeyError of ['v'])
extract_video_id(url) ==
    IF Contains(url, S_youtu_be)
    THEN [ok |-> TRUE, id |-> BeforeFirst(AfterLast(url, "/"), "?")]
    ELSE IF Contains(url, S_youtube_com_watch)
    THEN LET vs == parse_qs(UrlQuery(url), <<"v">>)
         IN  IF vs = <<>> THEN [ok |-> FALSE, id |-> <<>>]
             ELSE [ok |-> TRUE, id |-> vs[1]]
    ELSE [ok |-> FALSE, id |-> <<>>]

(* ------------------------ filename synthesizer ------------------------ *)

\* the length cap of sanitize_filename
MaxComponentLen == 100

\* re.sub(r'[\\/*?:"<>|]', '_', text)
ReplaceReserved(s) == [k \in 1..Len(s) |-> IF s[k] \in Reserved THEN "_" ELSE s[k]]

sanitize_filename_NoReplace(text) == Take(text, MaxComponentLen)

sanitize_filename(text) == Take(ReplaceReserved(text), MaxComponentLen)

IsIdChar(c) == isalnum(c) \/ c \in {"-", "_"}

\* ''.join(c for c in video_id if c.isalnum() or c in '-_')
SafeId(video_id) == SelectSeq(video_id, IsIdChar)

S_md == <<".","m","d">>

generate_filename(video_id, title, author) ==
    IF author # <<>> /\ title # <<>>
    THEN SafeId(video_id) \o <<"_">> \o sanitize_filename(author) \o <<"_">>
         \o sanitize_filename(Join(Take(Words(title), 5), <<" ">>)) \o S_md
    ELSE SafeId(video_id) \o S_md

(* --------------------- existing-artifact detector --------------------- *)

\* file_exists(video_id) over os.listdir(output_dir) = names
file_exists(video_id, names) ==
    \E filename \in names :
        \/ StartsWith(filename, video_id \o <<"_">>)
        \/ filename = video_id \o S_md

(* ------------------------ run-scoped deduplicator --------------------- *)

is_duplicate_Never(video_id, processed) == FALSE

is_duplicate(video_id, processed) == video_id \in processed

(* --------------------------- metadata fetch --------------------------- *)

S_YouTube_Video_ == <<"Y","o","u","T","u","b","e"," ","V","i","d","e","o"," ">>

S_YouTube_Creator == <<"Y","o","u","T","u","b","e"," ","C","r","e","a","t","o","r">>

S_Unknown == <<"U","n","k","n","o","w","n">>

\* resp is the outcome of the oEmbed request: ok = FALSE when requests.get,
\* raise_for_status or response.json raises; otherwise the JSON object, whose
\* "title" and "author_name" keys may be missing
get_video_info_UnknownAuthor(video_id, resp) ==
    IF resp.ok
    THEN [title  |-> IF resp.has_title THEN resp.title ELSE S_YouTube_Video_ \o video_id,
          author |-> IF resp.has_author THEN resp.author ELSE S_YouTube_Creator]
    ELSE [title |-> S_YouTube_Video_ \o video_id, author |-> S_Unknown]

get_video_info(video_id, resp) ==
    IF resp.ok
    THEN [title  |-> IF resp.has_title THEN resp.title ELSE S_YouTube_Video_ \o video_id,
          author |-> IF resp.has_author THEN resp.author ELSE S_YouTube_Creator]
    ELSE [title |-> S_YouTube_Video_ \o video_id, author |-> S_YouTube_Creator]

(* --------------------------- caption fetch ---------------------------- *)

\* api is the outcome of YouTubeTranscriptApi.get_transcript + the formatter:
\* raised, or a text.  get_transcript(url) returns None (is_none) when the
\* identifier extraction or the API raises
get_transcript(url, api) ==
    IF ~extract_video_id(url).ok \/ api.raised
    THEN [is_none |-> TRUE, text |-> <<>>]
    ELSE [is_none |-> FALSE, text |-> api.text]

\* "if transcript:"
Truthy(transcript) == ~transcript.is_none /\ transcript.text # <<>>

(* ----------------------------- artifacts ------------------------------ *)

\* the document written by save_transcript, by its parts
Content(url, video_info, text) ==
    [title |-> video_info.title, author |-> video_info.author,
     url |-> url, body |-> text]

NoContent == [title |-> <<>>, author |-> <<>>, url |-> <<>>, body |-> <<>>]

\* open(file_path, 'w') + f.write(content) on the directory st
WriteFile(st, name, content) ==
    [n \in (DOMAIN st) \cup {name} |-> IF n = name THEN content ELSE st[n]]

(* ------------------------- inputs of the model ------------------------ *)

S_https_youtu_be_ ==
    <<"h","t","t","p","s",":","/","/","y","o","u","t","u",".","b","e","/">>

S_https_www_youtube_com_watch_q ==
    <<"h","t","t","p","s",":","/","/","w","w","w",".","y","o","u","t","u","b","e",
      ".","c","o","m","/","w","a","t","c","h","?">>

S_https_vimeo_com_1 ==
    <<"h","t","t","p","s",":","/","/","v","i","m","e","o",".","c","o","m","/","1">>

Id_abc == <<"a","b","c">>

\* an identifier with a character that generate_filename drops
Id_a_colon_b == <<"a",":","b">>

\* a short link: the identifier is the last path segment, then a query
ShortUrl(v, query) == S_https_youtu_be_ \o v \o query

\* a canonical watch link: the identifier is the value of v, among other
\* query parameters
WatchUrl(v, before, after) ==
    S_https_www_youtube_com_watch_q \o before \o <<"v","=">> \o v \o after

Q_t == <<"?","t","=","1">>

P_t_before == <<"t","=","1","&">>

P_feature_after == <<"&","f","e","a","t","u","r","e","=","y","o","u","t","u",".","b","e">>

\* the references of the accepted shapes, each with the identifier it names
ShapedRefs ==
    { [v |-> Id_abc,       url |-> ShortUrl(Id_abc, <<>>)],
      [v |-> Id_abc,       url |-> ShortUrl(Id_abc, Q_t)],
      [v |-> Id_a_colon_b, url |-> ShortUrl(Id_a_colon_b, <<>>)],
      [v |-> Id_abc,       url |-> WatchUrl(Id_abc, P_t_before, <<>>)],
      [v |-> Id_abc,       url |-> WatchUrl(Id_abc, <<>>, P_feature_after)] }

\* references of no accepted shape: another host, a watch link without v
OtherUrls ==
    { S_https_vimeo_com_1,
      S_https_www_youtube_com_watch_q \o <<"t","=","1">> }

Urls == { r.url : r \in ShapedRefs } \cup OtherUrls

T_body0 == <<"T","0">>

T_body1 == <<"T","1">>

ApiOutcomes ==
    { [raised |-> TRUE,  text |-> <<>>],
      [raised |-> FALSE, text |-> <<>>],
      [raised |-> FALSE, text |-> T_body1] }

A_Ann == <<"A","n","n">>

A_pipe == <<"A","|","B">>

Ti_My_Talk == <<"M","y"," ","T","a","l","k">>

\* seven words, reserved characters
Ti_long == <<"W","h","a","t"," ","i","s"," ","2","/","3",":"," ",
             "a"," "," ","b","\t","c"," ","d">>

MetaOutcomes ==
    { [ok |-> FALSE, has_title |-> FALSE, title |-> <<>>, has_author |-> FALSE, author |-> <<>>],
      [ok |-> TRUE, has_title |-> TRUE, title |-> Ti_My_Talk, has_author |-> TRUE, author |-> A_Ann],
      [ok |-> TRUE, has_title |-> TRUE, title |-> Ti_long, has_author |-> TRUE, author |-> A_pipe],
      [ok |-> TRUE, has_title |-> TRUE, title |-> <<>>, has_author |-> FALSE, author |-> <<>>],
      [ok |-> TRUE, has_title |-> FALSE, title |-> <<>>, has_author |-> TRUE,
       author |-> Repeat("x", MaxComponentLen + 1)] }

\* what an earlier run, with an earlier answer of the metadata fetch, left in
\* the output directory
PriorArtifact(url, resp) ==
    LET id   == extract_video_id(url).id
        info == get_video_info(id, resp)
    IN  [name |-> generate_filename(id, info.title, info.author),
         content |-> Content(url, info, T_body0)]

\* another video, whose identifier goes on after "abc_"
Id_abc_A == <<"a","b","c","_","A">>

\* what the metadata fetch answered for that video
Meta_abc_A ==
    [ok |-> TRUE, has_title |-> TRUE, title |-> Ti_long, has_author |-> TRUE,
     author |-> <<"B">>]

PriorArtifacts ==
    { PriorArtifact(ShortUrl(Id_abc, <<>>), m) :
        m \in { r \in MetaOutcomes : r.ok /\ r.has_title /\ r.author # A_pipe } }
    \cup { PriorArtifact(ShortUrl(Id_abc_A, <<>>), Meta_abc_A) }

\* the references the earlier run was given
PriorUrls == { ShortUrl(Id_abc, <<>>), ShortUrl(Id_abc_A, <<>>) }

PriorStores ==
    { [n \in { a.name : a \in S } |-> (CHOOSE a \in S : a.name = n).content] :
        S \in { {} } \cup { {a} : a \in PriorArtifacts } }

RECURSIVE SeqsUpTo(_, _)
\* the non-empty sequences over S of length at most n
SeqsUpTo(S, n) ==
    IF n = 0 THEN {}
    ELSE { <<x>> : x \in S }
         \cup { <<x>> \o t : x \in S, t \in SeqsUpTo(S, n - 1) }

(* ------------------------------- main() -------------------------------- *)

\* "video_id = extractor.extract_video_id(url)", tabulated over the references
\* of the model
VideoId == [u \in Urls \cup PriorUrls |-> extract_video_id(u)]

\* what the handling of one reference did (history, read by the properties)
Entry(outcome, captionCalls, infoCalls, metaOk, wrote, name, content) ==
    [idx |-> i, url |-> urls[i],
     extracted |-> VideoId[urls[i]].ok,
     id |-> VideoId[urls[i]].id,
     outcome |-> outcome,
     seen |-> VideoId[urls[i]].id \in processed_ids,
     existed |-> file_exists(VideoId[urls[i]].id, DOMAIN store),
     earlier |-> VideoId[urls[i]].ok
                 /\ VideoId[urls[i]].id \in seen_ids,
     saved_earlier |-> VideoId[urls[i]].ok
                       /\ VideoId[urls[i]].id \in save_called,
     written_earlier |-> VideoId[urls[i]].ok
                         /\ VideoId[urls[i]].id \in written_ids,
     processed_before |-> processed_ids,
     counts_before |-> <<success_count, skipped_count, duplicate_count>>,
     store_before |-> store,
     caption_calls |-> captionCalls, info_calls |-> infoCalls,
     meta_ok |-> metaOk, wrote |-> wrote, name |-> name, content |-> content]

NoEntry ==
    [idx |-> 0, url |-> <<>>, extracted |-> FALSE, id |-> <<>>, outcome |-> "none",
     seen |-> FALSE, existed |-> FALSE, earlier |-> FALSE,
     saved_earlier |-> FALSE, written_earlier |-> FALSE, processed_before |-> {},
     counts_before |-> <<0, 0, 0>>, store_before |-> <<>>,
     caption_calls |-> 0, info_calls |-> 0,
     meta_ok |-> FALSE, wrote |-> FALSE, name |-> <<>>, content |-> NoContent]

Init ==
    /\ urls \in SeqsUpTo(Urls, MaxBatch)
    /\ skip_existing \in BOOLEAN
    /\ overwrite \in BOOLEAN
    /\ store \in PriorStores
    /\ processed_ids = {}
    /\ success_count = 0
    /\ skipped_count = 0
    /\ duplicate_count = 0
    /\ i = 1
    /\ pc = "loop"
    /\ outcomes = <<>>
    /\ last = NoEntry
    /\ seen_ids = {}
    /\ save_called = {}
    /\ written_ids = {}
    /\ store0 = store

\* "for url in urls": a reference is left to handle
InLoop == pc = "loop" /\ i <= Len(urls)

\* the next reference, with the history of the one just handled
Advance(entry) ==
    /\ i' = i + 1
    /\ pc' = pc
    /\ outcomes' = Append(outcomes, entry.outcome)
    /\ last' = entry
    /\ seen_ids' = IF entry.extracted THEN seen_ids \cup {entry.id} ELSE seen_ids
    /\ UNCHANGED <<urls, skip_existing, overwrite, store0>>

\* "file_exists(video_id) and not args.overwrite" then "args.skip_existing"
SkipGate_Off(video_id) == FALSE

SkipGate(video_id) ==
    file_exists(video_id, DOMAIN store) /\ ~overwrite /\ skip_existing

ReachesFetch_OverwriteRefetches ==
    /\ InLoop
    /\ VideoId[urls[i]].ok
    /\ ~is_duplicate(VideoId[urls[i]].id, processed_ids) \/ overwrite
    /\ ~SkipGate(VideoId[urls[i]].id)

\* the reference gets past both gates, to get_transcript
ReachesFetch ==
    /\ InLoop
    /\ VideoId[urls[i]].ok
    /\ ~is_duplicate(VideoId[urls[i]].id, processed_ids)
    /\ ~SkipGate(VideoId[urls[i]].id)

\* save_transcript: the identifier is marked first, then the file is written;
\* w = "oserror" is open() raising
save_transcript(video_id, url, video_info, text, w) ==
    /\ processed_ids' = processed_ids \cup {video_id}
    /\ save_called' = save_called \cup {video_id}
    /\ written_ids' = IF w = "ok" THEN written_ids \cup {video_id} ELSE written_ids
    /\ store' = IF w = "ok"
                THEN WriteFile(store,
                               generate_filename(video_id, video_info.title, video_info.author),
                               Content(url, video_info, text))
                ELSE store

\* extract_video_id raises: the except clause prints, the loop goes on
ExtractFailed ==
    /\ InLoop
    /\ ~VideoId[urls[i]].ok
    /\ Advance(Entry("extract_failed", 0, 0, FALSE, FALSE, <<>>, NoContent))
    /\ UNCHANGED <<store, processed_ids, save_called, written_ids,
                   success_count, skipped_count, duplicate_count>>

DuplicateInRun_CountsSkipped ==
    /\ InLoop
    /\ VideoId[urls[i]].ok
    /\ is_duplicate(VideoId[urls[i]].id, processed_ids)
    /\ skipped_count' = skipped_count + 1
    /\ Advance(Entry("duplicate", 0, 0, FALSE, FALSE, <<>>, NoContent))
    /\ UNCHANGED <<store, processed_ids, save_called, written_ids, success_count, duplicate_count>>

\* is_duplicate: duplicate_count += 1; continue
DuplicateInRun ==
    /\ InLoop
    /\ VideoId[urls[i]].ok
    /\ is_duplicate(VideoId[urls[i]].id, processed_ids)
    /\ duplicate_count' = duplicate_count + 1
    /\ Advance(Entry("duplicate", 0, 0, FALSE, FALSE, <<>>, NoContent))
    /\ UNCHANGED <<store, processed_ids, save_called, written_ids, success_count, skipped_count>>

SkipExisting_Marks ==
    /\ InLoop
    /\ VideoId[urls[i]].ok
    /\ ~is_duplicate(VideoId[urls[i]].id, processed_ids)
    /\ SkipGate(VideoId[urls[i]].id)
    /\ skipped_count' = skipped_count + 1
    /\ processed_ids' = processed_ids \cup {VideoId[urls[i]].id}
    /\ Advance(Entry("skipped", 0, 0, FALSE, FALSE, <<>>, NoContent))
    /\ UNCHANGED <<store, save_called, written_ids, success_count, duplicate_count>>

\* the file exists, no --overwrite, --skip-existing: skipped_count += 1; continue
SkipExisting ==
    /\ InLoop
    /\ VideoId[urls[i]].ok
    /\ ~is_duplicate(VideoId[urls[i]].id, processed_ids)
    /\ SkipGate(VideoId[urls[i]].id)
    /\ skipped_count' = skipped_count + 1
    /\ Advance(Entry("skipped", 0, 0, FALSE, FALSE, <<>>, NoContent))
    /\ UNCHANGED <<store, processed_ids, save_called, written_ids, success_count, duplicate_count>>

FetchFailed_CountsSkipped ==
    /\ ReachesFetch
    /\ \E api \in ApiOutcomes :
          /\ ~Truthy(get_transcript(urls[i], api))
          /\ Advance(Entry("fetch_failed", 1, 0, FALSE, FALSE, <<>>, NoContent))
    /\ skipped_count' = skipped_count + 1
    /\ UNCHANGED <<store, processed_ids, save_called, written_ids, success_count, duplicate_count>>

\* get_transcript returns None or an empty text: nothing else is done
FetchFailed ==
    /\ ReachesFetch
    /\ \E api \in ApiOutcomes :
          /\ ~Truthy(get_transcript(urls[i], api))
          /\ Advance(Entry("fetch_failed", 1, 0, FALSE, FALSE, <<>>, NoContent))
    /\ UNCHANGED <<store, processed_ids, save_called, written_ids,
                   success_count, skipped_count, duplicate_count>>

\* a transcript, the video info, the file written: success_count += 1
Saved ==
    /\ ReachesFetch
    /\ \E api \in ApiOutcomes, resp \in MetaOutcomes :
          LET id   == VideoId[urls[i]].id
              tr   == get_transcript(urls[i], api)
              info == get_video_info(id, resp)
          IN  /\ Truthy(tr)
              /\ save_transcript(id, urls[i], info, tr.text, "ok")
              /\ Advance(Entry("saved", 1, 1, resp.ok, TRUE,
                               generate_filename(id, info.title, info.author),
                               Content(urls[i], info, tr.text)))
    /\ success_count' = success_count + 1
    /\ UNCHANGED <<skipped_count, duplicate_count>>

WriteFailed_Aborts ==
    /\ ReachesFetch
    /\ \E api \in ApiOutcomes, resp \in MetaOutcomes :
          LET id   == VideoId[urls[i]].id
              tr   == get_transcript(urls[i], api)
              info == get_video_info(id, resp)
          IN  /\ Truthy(tr)
              /\ save_transcript(id, urls[i], info, tr.text, "oserror")
              /\ last' = Entry("write_failed", 1, 1, resp.ok, FALSE, <<>>, NoContent)
    /\ pc' = "aborted"
    /\ UNCHANGED <<urls, skip_existing, overwrite, store0, i, outcomes, seen_ids,
                   success_count, skipped_count, duplicate_count>>

\* a transcript, the video info, open() raises inside save_transcript: the
\* except clause prints, the loop goes on
WriteFailed ==
    /\ ReachesFetch
    /\ \E api \in ApiOutcomes, resp \in MetaOutcomes :
          LET id   == VideoId[urls[i]].id
              tr   == get_transcript(urls[i], api)
              info == get_video_info(id, resp)
          IN  /\ Truthy(tr)
              /\ save_transcript(id, urls[i], info, tr.text, "oserror")
              /\ Advance(Entry("write_failed", 1, 1, resp.ok, FALSE, <<>>, NoContent))
    /\ UNCHANGED <<success_count, skipped_count, duplicate_count>>

\* the loop is over: the two closing print calls
ReportSummary ==
    /\ pc = "loop"
    /\ i > Len(urls)
    /\ pc' = "done"
    /\ UNCHANGED <<urls, skip_existing, overwrite, store, processed_ids,
                   success_count, skipped_count, duplicate_count, i,
                   outcomes, last, seen_ids, save_called, written_ids, store0>>

Next ==
    \/ ExtractFailed
    \/ DuplicateInRun
    \/ SkipExisting
    \/ FetchFailed
    \/ Saved
    \/ WriteFailed
    \/ ReportSummary

Spec == Init /\ [][Next]_vars

\* what every step of the loop does to the loop's position: the next reference,
\* or, after the last one, the closing prints
LoopStep ==
    /\ pc = "loop"
    /\ \/ i' = i + 1 /\ pc' = pc
       \/ i' = i /\ pc' = "done"

\* main() is one sequential thread that nothing suspends: while the loop has
\* a step to take, a step is taken
FairSpec == Spec /\ WF_<<i, pc>>(LoopStep)

\* batches for the second occurrence of an identifier: a first reference, then
\* up to MaxBatch more, over two videos one of whose identifiers goes on after
\* the other's and "_", and a reference of no accepted shape
RetryUrls == PriorUrls \cup { S_https_vimeo_com_1 }

RetryInit ==
    /\ urls \in { <<u>> \o t : u \in RetryUrls, t \in SeqsUpTo(RetryUrls, MaxBatch) }
    /\ skip_existing \in BOOLEAN
    /\ overwrite \in BOOLEAN
    /\ store \in PriorStores
    /\ processed_ids = {}
    /\ success_count = 0
    /\ skipped_count = 0
    /\ duplicate_count = 0
    /\ i = 1
    /\ pc = "loop"
    /\ outcomes = <<>>
    /\ last = NoEntry
    /\ seen_ids = {}
    /\ save_called = {}
    /\ written_ids = {}
    /\ store0 = store

RetrySpec == RetryInit /\ [][Next]_vars

(* ------------------------------ properties ----------------------------- *)

\* the reference just handled got past extract_video_id
Handled == last.idx > 0 /\ last.extracted

\* the artifacts of the directory written for identifier id: those whose URL
\* line names it
ArtifactsOf(id) ==
    { n \in DOMAIN store : VideoId[store[n].url].ok /\ VideoId[store[n].url].id = id }

\* the same over a directory st
ArtifactsIn(st, id) ==
    { n \in DOMAIN st : VideoId[st[n].url].ok /\ VideoId[st[n].url].id = id }

\* how many references handled so far ended with outcome tag
CountOf(tag) == Cardinality({ k \in 1..Len(outcomes) : outcomes[k] = tag })

\* reference k of the batch named identifier id
Names(k, id) == VideoId[urls[k]].ok /\ VideoId[urls[k]].id = id

\* C1, as stated: a reference whose identifier an earlier reference of the
\* batch normalized to is reported as a run-duplicate, the duplicate counter
\* is incremented and neither fetch is invoked for it.
C1_AsStated ==
    (Handled /\ last.earlier) =>
        /\ last.outcome = "duplicate"
        /\ duplicate_count = last.counts_before[3] + 1
        /\ last.caption_calls = 0
        /\ last.info_calls = 0

\* C1, amended: a reference whose identifier an earlier reference of the
\* batch passed to save_transcript is reported as a run-duplicate, the
\* duplicate counter is incremented and neither fetch is invoked for it.
C1_DuplicateAfterSave ==
    (Handled /\ last.saved_earlier) =>
        /\ last.outcome = "duplicate"
        /\ duplicate_count = last.counts_before[3] + 1
        /\ last.caption_calls = 0
        /\ last.info_calls = 0

C1_Witness ==
    /\ Handled /\ last.saved_earlier
    /\ last.outcome = "duplicate"
    /\ last.url \notin { urls[k] : k \in 1..(last.idx - 1) }

\* C2: without --overwrite, handling a reference whose identifier has a file
\* in the directory when it is reached leaves the directory as it was.
C2_NoRewriteWithoutOverwrite ==
    (Handled /\ ~overwrite /\ last.existed) => store = last.store_before

\* C3, as stated: with --skip-existing and without --overwrite, a reference
\* whose identifier has a file in the directory is not written and the skip
\* counter goes up by one.
C3_AsStated ==
    (Handled /\ last.existed /\ skip_existing /\ ~overwrite) =>
        /\ store = last.store_before
        /\ skipped_count = last.counts_before[2] + 1

\* C3, amended: with --skip-existing and without --overwrite, a reference
\* whose identifier has a file in the directory and is not yet in
\* processed_ids is not written, the skip counter goes up by one and the
\* other two counters stay.
C3_SkipExisting ==
    (Handled /\ ~last.seen /\ last.existed /\ skip_existing /\ ~overwrite) =>
        /\ store = last.store_before
        /\ ~last.wrote
        /\ skipped_count = last.counts_before[2] + 1
        /\ success_count = last.counts_before[1]
        /\ duplicate_count = last.counts_before[3]

C3_Witness ==
    /\ Handled /\ ~last.seen /\ last.existed /\ skip_existing /\ ~overwrite
    /\ skipped_count = 1
    /\ store = last.store_before

\* C4: after save_transcript has written the file of an identifier,
\* file_exists finds that identifier in the directory.
C4_SaveThenExists ==
    (Handled /\ last.outcome = "saved") => file_exists(last.id, DOMAIN store)

\* C5: with --overwrite, after a reference whose identifier had a file in the
\* directory is saved, every artifact of that identifier holds the content
\* just written (the earlier content is gone).
C5_OverwriteReplaces ==
    (Handled /\ overwrite /\ last.existed /\ last.outcome = "saved") =>
        \A n \in ArtifactsOf(last.id) : store[n] = last.content

\* C6: a reference of the short-link shape or of the canonical-watch shape
\* yields exactly the identifier it names.
C6_SameIdentifierForAllShapes ==
    \A r \in ShapedRefs :
        (last.idx > 0 /\ last.url = r.url) => (last.extracted /\ last.id = r.v)

\* C7: the name under which an artifact is saved starts with the identifier's
\* alphanumeric, hyphen and underscore characters and holds no reserved
\* character.
C7_FilenameSafe ==
    (Handled /\ last.outcome = "saved") =>
        /\ last.name \in DOMAIN store
        /\ StartsWith(last.name, SelectSeq(last.id, IsIdChar))
        /\ \A k \in 1..Len(last.name) :
              last.name[k] \notin {"\\", "/", "*", "?", ":", "\"", "<", ">", "|"}

C7_Witness ==
    /\ Handled /\ last.outcome = "saved"
    /\ \E k \in 1..Len(last.id) : last.id[k] \in Reserved
    /\ \E k \in 1..Len(last.content.author) : last.content.author[k] \in Reserved
    /\ Len(Words(last.content.title)) > 5

\* C8: when the caption fetch of a reference fails or returns an empty text,
\* the three counters and the directory are as before and the loop is at the
\* next reference.
C8_FetchFailureChangesNothing ==
    (Handled /\ last.caption_calls = 1 /\ last.info_calls = 0) =>
        /\ <<success_count, skipped_count, duplicate_count>> = last.counts_before
        /\ store = last.store_before
        /\ ~last.wrote
        /\ i = last.idx + 1
        /\ pc \in {"loop", "done"}

C8_Witness ==
    /\ Handled /\ last.outcome = "fetch_failed"
    /\ last.caption_calls = 1
    /\ i <= Len(urls)

\* C9: the references are handled one by one in input order, each with one
\* outcome, whatever fails, and the summary is eventually printed after the
\* last one.
C9_BatchNeverAborts ==
    /\ [](/\ Len(outcomes) = i - 1
          /\ i <= Len(urls) + 1
          /\ (i > 1 => last.idx = i - 1 /\ last.url = urls[i - 1]
                       /\ last.outcome = outcomes[i - 1]))
    /\ <>(pc = "done" /\ Len(outcomes) = Len(urls))

C9_Witness ==
    /\ pc = "done"
    /\ Len(outcomes) = Len(urls)
    /\ Len(urls) >= 2
    /\ outcomes[1] \in {"extract_failed", "fetch_failed", "write_failed"}

\* C10: when the metadata fetch fails after a caption fetch that succeeded,
\* the save goes ahead, and the artifact is written under the name made from
\* the title "YouTube Video <id>" and the author "YouTube Creator", which its
\* header holds.
C10_FallbackMetadata ==
    (Handled /\ last.caption_calls = 1 /\ last.info_calls = 1 /\ ~last.meta_ok) =>
        /\ last.outcome \in {"saved", "write_failed"}
        /\ last.id \in processed_ids
        /\ last.outcome = "saved" =>
              /\ last.name = generate_filename(last.id, S_YouTube_Video_ \o last.id,
                                               S_YouTube_Creator)
              /\ last.name \in DOMAIN store
              /\ store[last.name].title = S_YouTube_Video_ \o last.id
              /\ store[last.name].author = S_YouTube_Creator
              /\ store[last.name].url = last.url
              /\ store[last.name].body = T_body1

C10_Witness ==
    /\ Handled /\ last.outcome = "saved" /\ ~last.meta_ok
    /\ last.name \in DOMAIN store
    /\ store[last.name].author = S_YouTube_Creator

\* C11: when the run is over, a batch of two or more references that all
\* name one identifier, started on a directory with no artifact of that
\* identifier and with every caption fetch succeeding, has left exactly one
\* artifact of it, and the counters are 1 success, 0 skipped, n-1 duplicates.
C11_OneArtifactForRepeatedId ==
    (/\ pc = "done"
     /\ Len(urls) >= 2
     /\ \A k \in 1..Len(urls) : Names(k, VideoId[urls[1]].id)
     /\ ArtifactsIn(store0, VideoId[urls[1]].id) = {}
     /\ CountOf("fetch_failed") = 0) =>
        /\ Cardinality(ArtifactsOf(VideoId[urls[1]].id)) = 1
        /\ <<success_count, skipped_count, duplicate_count>> = <<1, 0, Len(urls) - 1>>

\* C12: every identifier of processed_ids is one whose file was written in
\* this run (and has an artifact in the directory).
C12_MarkedOnlyAfterWrite ==
    \A id \in processed_ids : id \in written_ids /\ ArtifactsOf(id) # {}

\* C13: when the latest earlier reference of the batch that named the same
\* identifier ended in a failed caption fetch, the reference is not reported
\* as a run-duplicate and its caption fetch is attempted.
C13_RetryAfterFailedFetch ==
    \A k \in 1..(last.idx - 1) :
        (/\ Handled
         /\ Names(k, last.id)
         /\ outcomes[k] = "fetch_failed"
         /\ \A m \in (k + 1)..(last.idx - 1) : ~Names(m, last.id)) =>
            /\ last.outcome # "duplicate"
            /\ last.caption_calls = 1

\* C14: a save never writes under a name that held the artifact of another
\* identifier.
C14_NoSharedName ==
    (Handled /\ last.outcome = "saved" /\ last.name \in DOMAIN last.store_before) =>
        /\ VideoId[last.store_before[last.name].url].ok
        /\ VideoId[last.store_before[last.name].url].id = last.id

\* C15: file_exists answers true for an identifier only when the directory
\* holds an artifact written for that identifier.
C15_ExistsOnlyForOwnArtifact ==
    (Handled /\ last.existed) => ArtifactsIn(last.store_before, last.id) # {}

\* C16: a reference whose identifier had its file written earlier in the run
\* is counted as a duplicate, whatever --skip-existing and --overwrite are:
\* the skip and success counters stay, neither fetch is invoked and the
\* directory is as before.
C16_DuplicateGateFirst ==
    (Handled /\ last.written_earlier) =>
        /\ last.outcome = "duplicate"
        /\ <<success_count, skipped_count, duplicate_count>> =
              <<last.counts_before[1], last.counts_before[2], last.counts_before[3] + 1>>
        /\ last.caption_calls = 0
        /\ last.info_calls = 0
        /\ ~last.wrote
        /\ store = last.store_before

C16_Witness ==
    /\ Handled /\ last.written_earlier
    /\ overwrite /\ skip_existing
    /\ last.existed
    /\ last.outcome = "duplicate"

\* C17: processed_ids never loses an identifier, and a reference that ends as
\* extract-failed, run-duplicate, skipped-existing or fetch-failed leaves the
\* directory and processed_ids as they were.
C17_OnlySaveChangesState ==
    last.idx > 0 =>
        /\ last.processed_before \subseteq processed_ids
        /\ last.outcome \in {"extract_failed", "duplicate", "skipped", "fetch_failed"} =>
              /\ store = last.store_before
              /\ processed_ids = last.processed_before

C17_Witness ==
    /\ last.idx > 0
    /\ last.outcome = "skipped"
    /\ last.processed_before # {}
    /\ processed_ids = last.processed_before
    /\ store = last.store_before

\* C18: the three counters never go down, a reference adds one to at most one
\* of them, their sum is at most the number of references handled, the
\* success counter is the number of files written and the duplicate counter
\* the number of references that is_duplicate rejected.
C18_CounterAccounting ==
    /\ success_count + skipped_count + duplicate_count <= Len(outcomes)
    /\ success_count = CountOf("saved")
    /\ duplicate_count = CountOf("duplicate")
    /\ last.idx > 0 =>
          /\ success_count >= last.counts_before[1]
          /\ skipped_count >= last.counts_before[2]
          /\ duplicate_count >= last.counts_before[3]
          /\ success_count + skipped_count + duplicate_count
                <= last.counts_before[1] + last.counts_before[2] + last.counts_before[3] + 1

C18_Witness ==
    /\ Len(outcomes) = 2
    /\ success_count = 1
    /\ duplicate_count = 1
    /\ last.outcome = "duplicate"

====
